---- MODULE Spec2Model ----
(***************************************************************************)
(* A model of hacks/computed_parameters.ipynb: the ComputedParameter       *)
(* cache, its __torch_function__ and method proxies, the patched           *)
(* Module.__setattr__, and SpectralNormWeight's power iteration.           *)
(***************************************************************************)
EXTENDS Integers, Sequences, FiniteSets, TLC

(* ------------------------------ bounds -------------------------------- *)
\* number of parameters watched by the ComputedParameter (self.parameters())
NParams == 2
\* cap on a parameter's _version counter
MaxVersion == 1
\* cap on the number of invocations of the wrapped computation m()
MaxCalls == 3
\* largest n_power_iterations a SpectralNormWeight is built with
MaxPowerIterations == 2
\* cap on the number of forward() calls
MaxForward == 2
\* largest number of axes, and largest extent of an axis, of a weight shape
MaxRank == 3
MaxExtent == 2

VARIABLES
  cp,          \* the ComputedParameter object: needs_update, cache, param_versions
  versions,    \* p._version of every parameter of the ComputedParameter
  hooks,       \* ids of the values m() produced that carry the require_update hook
  m_calls,     \* number of invocations of self.m() so far
  fired,       \* the hook of the value now in cp.cache has fired since it was computed
  last         \* the last operation: its name, inputs, outcome, and the state before it

VARIABLES
  cls_attrs,   \* the attributes of class ComputedParameter
  installed    \* the cell installing the proxies has run

VARIABLES
  mod,         \* a torch.nn.Module: its _parameters, _buffers, _modules and __dict__
  patched      \* replace_setattr() has run: Module.__setattr__ is new_setattr

VARIABLES
  snw,         \* a SpectralNormWeight: shape, dim, permuted_shape, weight_mat, u, v, ...
  forwards     \* number of forward() calls made on it

cpVars == <<cp, versions, hooks, m_calls, fired, last>>
proxyVars == <<cls_attrs, installed>>
modVars == <<mod, patched>>
snVars == <<snw, forwards>>
\* what the operations on the ComputedParameter leave alone
notCPVars == <<proxyVars, modVars, snVars>>
\* what the proxy operations leave alone, the ComputedParameter apart
notProxyVars == <<modVars, snVars>>
\* what the operations on the module leave alone, last apart
notModVars == <<cp, versions, hooks, m_calls, fired, proxyVars, snVars>>
\* what the operations on the SpectralNormWeight leave alone, last apart
notSNVars == <<cp, versions, hooks, m_calls, fired, proxyVars, modVars>>

\* Python's None where a tensor or an attribute value is expected
None == [none |-> TRUE]
\* Python's None where the list of recorded versions is expected (the list
\* itself has one entry per parameter and is never empty)
NoVersions == <<>>
Params == 1..NParams

\* an exception leaving a call
Raised(e) == [raised |-> e]
IsRaised(r) ==
  r \in {Raised("RuntimeError"), Raised("TypeError"), Raised("AttributeError"),
         Raised("KeyError")}
\* a call returned a tensor
IsValue(r) == r # None /\ ~IsRaised(r)

\* the ComputedParameter together with the framework state its methods read
World == [cp |-> cp, versions |-> versions, hooks |-> hooks, m_calls |-> m_calls,
          fired |-> fired]

(* --------------------------- ComputedParameter ------------------------ *)
\* a constructor that starts with the empty cache marked fresh
CPInitFresh == [needs_update |-> FALSE, cache |-> None, param_versions |-> NoVersions]

\* __init__: needs_update = True, cache = None, param_versions = None
CPInit == [needs_update |-> TRUE, cache |-> None, param_versions |-> NoVersions]

\* require_update(self, *args)
RequireUpdate(self) == [self EXCEPT !.needs_update = TRUE]

\* check_param_versions() that also marks the cache fresh when every recorded
\* version is the current one
CheckParamVersionsClears(self, vs) ==
  IF self.param_versions = NoVersions
    THEN RequireUpdate(self)
    ELSE IF \E p \in Params : vs[p] # self.param_versions[p]
           THEN RequireUpdate(self)
           ELSE [self EXCEPT !.needs_update = FALSE]

\* check_param_versions(self)
CheckParamVersions(self, vs) ==
  IF self.param_versions = NoVersions
    THEN RequireUpdate(self)
    ELSE IF \E p \in Params : vs[p] # self.param_versions[p]
           THEN RequireUpdate(self)
           ELSE self

\* self.m(): the k-th tensor produced by the wrapped module, computed from the
\* parameters at versions vs; it requires grad iff grad mode is on
MResult(k, vs, grad) == [id |-> k, vers |-> vs, requires_grad |-> grad]

\* tensor() with the hook registration left out
TensorNoHook(w, grad) ==
  IF w.cp.needs_update
    THEN LET val == MResult(w.m_calls + 1, w.versions, grad)
         IN [w |-> [w EXCEPT !.cp.cache = val,
                             !.cp.param_versions = w.versions,
                             !.m_calls = @ + 1,
                             !.fired = FALSE],
             ret |-> val]
    ELSE [w |-> w, ret |-> w.cp.cache]

\* tensor() clearing needs_update after a recomputation
TensorClearsFlag(w, grad) ==
  IF w.cp.needs_update
    THEN LET val == MResult(w.m_calls + 1, w.versions, grad)
             w1  == [w EXCEPT !.cp.cache = val, !.m_calls = @ + 1, !.fired = FALSE]
         IN IF ~val.requires_grad
              THEN [w |-> w1, ret |-> Raised("RuntimeError")]
              ELSE [w |-> [w1 EXCEPT !.hooks = @ \cup {val.id},
                                     !.cp.param_versions = w.versions,
                                     !.cp.needs_update = FALSE],
                    ret |-> val]
    ELSE [w |-> w, ret |-> w.cp.cache]

\* tensor(self): recompute when needs_update, register the hook on the new
\* value, record the parameter versions, return the cache.  register_hook
\* raises RuntimeError on a tensor that does not require grad: the cache is
\* then already replaced and param_versions is not.
Tensor(w, grad) ==
  IF w.cp.needs_update
    THEN LET val == MResult(w.m_calls + 1, w.versions, grad)
             w1  == [w EXCEPT !.cp.cache = val, !.m_calls = @ + 1, !.fired = FALSE]
         IN IF ~val.requires_grad
              THEN [w |-> w1, ret |-> Raised("RuntimeError")]
              ELSE [w |-> [w1 EXCEPT !.hooks = @ \cup {val.id},
                                     !.cp.param_versions = w.versions],
                    ret |-> val]
    ELSE [w |-> w, ret |-> w.cp.cache]

\* the variables take the values of world w
SetWorld(w) ==
  /\ cp' = w.cp
  /\ versions' = w.versions
  /\ hooks' = w.hooks
  /\ m_calls' = w.m_calls
  /\ fired' = w.fired

CPStateInit ==
  /\ cp = CPInit
  /\ versions = [p \in Params |-> 0]
  /\ hooks = {}
  /\ m_calls = 0
  /\ fired = FALSE
  /\ last = [op |-> "init"]

\* a call of cp.tensor()
TensorCall ==
  \E grad \in BOOLEAN :
    /\ m_calls < MaxCalls
    /\ LET r == Tensor(World, grad)
       IN /\ SetWorld(r.w)
          /\ last' = [op |-> "tensor", after |-> last.op, pre |-> World, ret |-> r.ret]
    /\ UNCHANGED notCPVars

\* a call of cp.require_update()
RequireUpdateCall ==
  /\ cp' = RequireUpdate(cp)
  /\ last' = [op |-> "require_update", after |-> last.op]
  /\ UNCHANGED <<versions, hooks, m_calls, fired>>
  /\ UNCHANGED notCPVars

\* a call of cp.check_param_versions()
CheckParamVersionsCall ==
  /\ cp' = CheckParamVersions(cp, versions)
  /\ last' = [op |-> "check_param_versions", after |-> last.op, pre |-> World]
  /\ UNCHANGED <<versions, hooks, m_calls, fired>>
  /\ UNCHANGED notCPVars

\* opt.step(): every parameter in S is updated in place, which bumps _version
OptimizerStep ==
  \E S \in (SUBSET Params) \ {{}} :
    /\ \A p \in S : versions[p] < MaxVersion
    /\ versions' = [p \in Params |-> IF p \in S THEN versions[p] + 1 ELSE versions[p]]
    /\ last' = [op |-> "step", after |-> last.op]
    /\ UNCHANGED <<cp, hooks, m_calls, fired>>
    /\ UNCHANGED notCPVars

\* loss.backward() reaching value k: its gradient hook calls require_update
Backward ==
  \E k \in hooks :
    /\ cp' = RequireUpdate(cp)
    /\ fired' = (fired \/ (cp.cache # None /\ cp.cache.id = k))
    /\ last' = [op |-> "backward", after |-> last.op, id |-> k]
    /\ UNCHANGED <<versions, hooks, m_calls>>
    /\ UNCHANGED notCPVars

(* --------------------------- __torch_function__ ------------------------ *)
\* what a framework function can be handed: the ComputedParameter, an
\* ordinary tensor, or any other object
CPRef == [kind |-> "ComputedParameter"]
PlainTensor == [kind |-> "Tensor"]
OtherObj == [kind |-> "object"]
ArgVals == {CPRef, PlainTensor, OtherObj}
\* isinstance(a, ComputedParameter)
IsComputedParameter(a) == a = CPRef

\* bound on the number of positional arguments of a call
MaxArgs == 2
ArgTuples == UNION {[1..n -> ArgVals] : n \in 0..MaxArgs}
\* keyword names a call may use
KwNames == {"other"}
EmptyDict == [n \in {} |-> None]
\* the kwargs argument: None (the default) or a dict
KwargsVals == {None} \cup UNION {[S -> ArgVals] : S \in SUBSET KwNames}

\* func(*args, **kwargs): the framework function applied to what it was handed
FuncResult(args, kwargs) == [func_of |-> <<args, kwargs>>]

\* tuple(a.tensor() if isinstance(a, ComputedParameter) else a for a in args),
\* left to right; an exception in a tensor() call ends the conversion
RECURSIVE ConvertArgs(_, _, _)
ConvertArgs(w, args, grad) ==
  IF args = <<>>
    THEN [w |-> w, out |-> <<>>, raised |-> FALSE]
    ELSE IF IsComputedParameter(Head(args))
      THEN LET r == Tensor(w, grad)
           IN IF IsRaised(r.ret)
                THEN [w |-> r.w, out |-> <<>>, raised |-> TRUE]
                ELSE LET rest == ConvertArgs(r.w, Tail(args), grad)
                     IN [rest EXCEPT !.out = <<r.ret>> \o @]
      ELSE LET rest == ConvertArgs(w, Tail(args), grad)
           IN [rest EXCEPT !.out = <<Head(args)>> \o @]

\* __torch_function__(cls, func, types, args=(), kwargs=None)
TorchFunction(w, args, kwargs, grad) ==
  LET kw == IF kwargs = None THEN EmptyDict ELSE kwargs
      c  == ConvertArgs(w, args, grad)
  IN IF c.raised
       THEN [w |-> c.w, called |-> FALSE, ret |-> Raised("RuntimeError")]
       ELSE [w |-> c.w, called |-> TRUE, func_args |-> c.out, func_kwargs |-> kw,
             ret |-> FuncResult(c.out, kw)]

\* number of ComputedParameter entries of a tuple
CountCP(args) == Cardinality({i \in DOMAIN args : IsComputedParameter(args[i])})

\* the framework dispatches a function call to ComputedParameter.__torch_function__
TorchFunctionCall ==
  \E args \in ArgTuples, kwargs \in KwargsVals, grad \in BOOLEAN :
    /\ m_calls + CountCP(args) <= MaxCalls
    /\ LET r == TorchFunction(World, args, kwargs, grad)
       IN /\ SetWorld(r.w)
          /\ last' = [op |-> "torch_function", after |-> last.op, args |-> args,
                      kwargs |-> kwargs, call |-> [r EXCEPT !.w = None]]
    /\ UNCHANGED notCPVars

(* ------------------------------ method proxies ------------------------- *)
\* inspect.getmembers(torch.Tensor), sorted by name; descriptor tells whether
\* inspect.ismethoddescriptor(member) holds (it does not for Python functions
\* such as backward, nor for data descriptors such as shape)
TensorMembers ==
  << [name |-> "__eq__",   descriptor |-> TRUE],
     [name |-> "add",      descriptor |-> TRUE],
     [name |-> "backward", descriptor |-> FALSE],
     [name |-> "cpu",      descriptor |-> TRUE],
     [name |-> "mul",      descriptor |-> TRUE],
     [name |-> "shape",    descriptor |-> FALSE],
     [name |-> "view",     descriptor |-> TRUE] >>
MemberNames == {TensorMembers[i].name : i \in DOMAIN TensorMembers}
\* names ComputedParameter has before the loop: its own and torch.nn.Module's
OwnAttrs == {"__eq__", "__hash__", "tensor", "cpu"}
AttrNames == MemberNames \cup OwnAttrs

Absent == [kind |-> "absent"]
OwnAttr == [kind |-> "own"]
\* the class attributes of ComputedParameter when the class statement is done
ClassInit == [n \in AttrNames |-> IF n \in OwnAttrs THEN OwnAttr ELSE Absent]
\* hasattr(ComputedParameter, name)
HasAttr(cls, n) == cls[n] # Absent

\* a proxy bound to the name the loop variable holds when the loop is over
GetProxyLateBinding(n) ==
  [kind |-> "proxy", name |-> TensorMembers[Len(TensorMembers)].name]

\* get_proxy(name): new_fn closes over get_proxy's own parameter
GetProxy(n) == [kind |-> "proxy", name |-> n]

\* the installation loop over the first k members
RECURSIVE InstallProxies(_, _)
InstallProxies(cls, k) ==
  IF k = 0
    THEN cls
    ELSE LET c == InstallProxies(cls, k - 1)
             m == TensorMembers[k]
         IN IF ~HasAttr(c, m.name) /\ m.descriptor
              THEN [c EXCEPT ![m.name] = GetProxy(m.name)]
              ELSE c

\* getattr(t, name)(*args): method name of tensor t applied to arg
TensorMethod(n, t, arg) == [method |-> n, self |-> t, arg |-> arg]

\* new_fn(self, *args, **kwargs) of proxy p
NewFn(p, w, arg, grad) ==
  LET r == Tensor(w, grad)
  IN IF IsRaised(r.ret)
       THEN r
       ELSE [w |-> r.w, ret |-> TensorMethod(p.name, r.ret, arg)]

\* arguments a method is called with
MethodArgs == {"x", "y"}

ProxyStateInit ==
  /\ cls_attrs = ClassInit
  /\ installed = FALSE

\* the cell with the installation loop runs
RunProxyCell ==
  /\ ~installed
  /\ installed' = TRUE
  /\ cls_attrs' = InstallProxies(cls_attrs, Len(TensorMembers))
  /\ last' = [op |-> "install", after |-> last.op]
  /\ UNCHANGED <<cp, versions, hooks, m_calls, fired>>
  /\ UNCHANGED notProxyVars

\* cp.<n>(arg) for a name that resolves to an installed proxy
MethodCall ==
  \E n \in MemberNames, arg \in MethodArgs, grad \in BOOLEAN :
    /\ cls_attrs[n] \notin {Absent, OwnAttr}
    /\ m_calls < MaxCalls
    /\ LET r == NewFn(cls_attrs[n], World, arg, grad)
       IN /\ SetWorld(r.w)
          /\ last' = [op |-> "method", after |-> last.op, name |-> n, arg |-> arg,
                      ret |-> r.ret]
    /\ UNCHANGED proxyVars
    /\ UNCHANGED notProxyVars

(* --------------------------- Module.__setattr__ ------------------------ *)
\* attribute names of the module
Names == {"weight", "bias"}
\* two torch.nn.Parameter objects and a module that is no ComputedParameter
ParamA == [kind |-> "Parameter", id |-> 1]
ParamB == [kind |-> "Parameter", id |-> 2]
OtherModule == [kind |-> "Module"]
\* values an attribute is assigned
AttrVals == {ParamA, ParamB, None, CPRef, OtherModule, PlainTensor, OtherObj}
\* isinstance(v, torch.nn.Parameter), torch.nn.Module, torch.Tensor
IsParameter(v) == v \in {ParamA, ParamB}
IsModule(v) == v \in {CPRef, OtherModule}
IsTensor(v) == v \in {ParamA, ParamB, PlainTensor}
\* the default handed to getattr in new_setattr
Default1 == [int |-> 1]

\* torch.nn.Module.__init__: empty registries
ModuleInit ==
  [_parameters |-> [n \in Names |-> Absent],
   _buffers    |-> [n \in Names |-> Absent],
   _modules    |-> [n \in Names |-> Absent],
   __dict__    |-> [n \in Names |-> Absent]]

\* getattr(self, n, default): the instance __dict__, then Module.__getattr__
\* over _parameters, _buffers, _modules, then the default
GetAttr(m, n, default) ==
  IF m.__dict__[n] # Absent THEN m.__dict__[n]
  ELSE IF m._parameters[n] # Absent THEN m._parameters[n]
  ELSE IF m._buffers[n] # Absent THEN m._buffers[n]
  ELSE IF m._modules[n] # Absent THEN m._modules[n]
  ELSE default

\* hasattr(self, n)
ModHasAttr(m, n) == GetAttr(m, n, Absent) # Absent

\* torch.nn.Module.__delattr__(self, n)
Delattr(m, n) ==
  IF m._parameters[n] # Absent
    THEN [m |-> [m EXCEPT !._parameters[n] = Absent], err |-> None]
  ELSE IF m._buffers[n] # Absent
    THEN [m |-> [m EXCEPT !._buffers[n] = Absent], err |-> None]
  ELSE IF m._modules[n] # Absent
    THEN [m |-> [m EXCEPT !._modules[n] = Absent], err |-> None]
  ELSE IF m.__dict__[n] # Absent
    THEN [m |-> [m EXCEPT !.__dict__[n] = Absent], err |-> None]
  ELSE [m |-> m, err |-> Raised("AttributeError")]

\* torch.nn.Module.register_parameter(n, v)
RegisterParameter(m, n, v) ==
  IF ModHasAttr(m, n) /\ m._parameters[n] = Absent
    THEN [m |-> m, err |-> Raised("KeyError")]
  ELSE IF v = None
    THEN [m |-> [m EXCEPT !._parameters[n] = None], err |-> None]
  ELSE IF ~IsParameter(v)
    THEN [m |-> m, err |-> Raised("TypeError")]
  ELSE [m |-> [m EXCEPT !._parameters[n] = v], err |-> None]

\* torch.nn.Module.register_buffer(n, v)
RegisterBuffer(m, n, v) ==
  IF ModHasAttr(m, n) /\ m._buffers[n] = Absent
    THEN [m |-> m, err |-> Raised("KeyError")]
  ELSE IF v # None /\ ~IsTensor(v)
    THEN [m |-> m, err |-> Raised("TypeError")]
  ELSE [m |-> [m EXCEPT !._buffers[n] = v], err |-> None]

\* old_setattr: torch.nn.Module.__setattr__(self, n, v) as the framework defines it
OldSetattr(m, n, v) ==
  IF IsParameter(v)
    THEN RegisterParameter([m EXCEPT !.__dict__[n] = Absent, !._buffers[n] = Absent,
                                     !._modules[n] = Absent], n, v)
  ELSE IF m._parameters[n] # Absent
    THEN IF v # None
           THEN [m |-> m, err |-> Raised("TypeError")]
           ELSE RegisterParameter(m, n, v)
  ELSE IF IsModule(v)
    THEN [m |-> [m EXCEPT !.__dict__[n] = Absent, !._parameters[n] = Absent,
                          !._buffers[n] = Absent, !._modules[n] = v],
          err |-> None]
  ELSE IF m._modules[n] # Absent
    THEN IF v # None
           THEN [m |-> m, err |-> Raised("TypeError")]
           ELSE [m |-> [m EXCEPT !._modules[n] = v], err |-> None]
  ELSE IF m._buffers[n] # Absent
    THEN IF v # None /\ ~IsTensor(v)
           THEN [m |-> m, err |-> Raised("TypeError")]
           ELSE [m |-> [m EXCEPT !._buffers[n] = v], err |-> None]
  ELSE [m |-> [m EXCEPT !.__dict__[n] = v], err |-> None]

\* new_setattr that deletes the name before every assignment
NewSetattrAlwaysDelete(m, n, v) ==
  LET d == Delattr(m, n)
  IN IF d.err # None THEN d ELSE OldSetattr(d.m, n, v)

\* new_setattr that never deletes the old attribute
NewSetattrNoDelete(m, n, v) == OldSetattr(m, n, v)

\* new_setattr(self, n, v): `A and B or C` groups as `(A and B) or C`
NewSetattr(m, n, v) ==
  LET oldval == GetAttr(m, n, Default1)
  IN IF (IsComputedParameter(v) /\ oldval = None) \/ IsParameter(oldval)
       THEN LET d == Delattr(m, n)
            IN IF d.err # None THEN d ELSE OldSetattr(d.m, n, v)
       ELSE OldSetattr(m, n, v)

ModStateInit ==
  /\ mod = ModuleInit
  /\ patched = FALSE

\* replace_setattr(): Module.__setattr__ becomes new_setattr
ReplaceSetattr ==
  /\ ~patched
  /\ patched' = TRUE
  /\ last' = [op |-> "replace_setattr", after |-> last.op]
  /\ UNCHANGED <<mod, notModVars>>

\* module.n = v, through whichever __setattr__ is installed
SetAttr ==
  \E n \in Names, v \in AttrVals :
    LET r == IF patched THEN NewSetattr(mod, n, v) ELSE OldSetattr(mod, n, v)
    IN /\ mod' = r.m
       /\ last' = [op |-> "setattr", after |-> last.op, n |-> n, v |-> v,
                   pre |-> mod, err |-> r.err, patched |-> patched]
       /\ UNCHANGED <<patched, notModVars>>

\* module.register_buffer(n, v), as in SpectralNormWeight.__init__
RegisterBufferCall ==
  \E n \in Names, v \in {PlainTensor, None} :
    LET r == RegisterBuffer(mod, n, v)
    IN /\ mod' = r.m
       /\ last' = [op |-> "register_buffer", after |-> last.op, n |-> n, v |-> v,
                   err |-> r.err]
       /\ UNCHANGED <<patched, notModVars>>

(* ------------------------ ComputedParameter.__eq__ --------------------- *)
\* the attributes super() finds for a ComputedParameter: those of
\* torch.nn.Module and object among the names the class body uses; the tensor
\* method proxies are set on ComputedParameter itself, which super() skips
SuperAttrs == {"__init__", "__hash__", "__eq__"}
\* super().<name>
SuperGetAttr(name) ==
  IF name \in SuperAttrs THEN [kind |-> "bound method", name |-> name]
  ELSE Raised("AttributeError")

\* the right-hand operands of ==
EqOperands == {CPRef, OtherModule, PlainTensor, OtherObj}

\* torch.eq(a, b) on what __torch_function__ hands it: element-wise on
\* tensors, TypeError for an operand that is no tensor
TorchEq(call) ==
  IF ~call.called THEN call.ret
  ELSE IF call.func_args[2] = OtherObj THEN Raised("TypeError")
  ELSE [elementwise_eq |-> call.func_args]

\* __eq__(self, other): the world after the call, what the call returned or
\* raised, and the number of __torch_function__ dispatches it made
Eq(w, other, grad) ==
  IF IsModule(other)
    THEN LET f == SuperGetAttr("eq")
         IN [w |-> w, dispatches |-> 0,
             ret |-> IF IsRaised(f) THEN f ELSE [identical |-> other = CPRef]]
    ELSE LET call == TorchFunction(w, <<CPRef, other>>, None, grad)
         IN [w |-> call.w, dispatches |-> 1, ret |-> TorchEq(call)]

\* cp == other
EqCall ==
  \E other \in EqOperands, grad \in BOOLEAN :
    /\ m_calls < MaxCalls
    /\ LET r == Eq(World, other, grad)
       IN /\ SetWorld(r.w)
          /\ last' = [op |-> "eq", after |-> last.op, other |-> other, grad |-> grad,
                      ret |-> r.ret, dispatches |-> r.dispatches]
    /\ UNCHANGED notCPVars

(* --------------------------- SpectralNormWeight ------------------------ *)
\* Tuples are Python tuples: 0-based index i is position i + 1, a negative
\* index counts from the end.
PyIndex(t, i) == IF i >= 0 THEN t[i + 1] ELSE t[Len(t) + i + 1]
\* slice bound b clamped as Python clamps it
PyBound(t, b) ==
  IF b < 0 THEN (IF Len(t) + b < 0 THEN 0 ELSE Len(t) + b)
  ELSE (IF b > Len(t) THEN Len(t) ELSE b)
\* t[lo:hi]
PySlice(t, lo, hi) ==
  LET a == PyBound(t, lo)
      b == PyBound(t, hi)
  IN IF b <= a THEN <<>> ELSE [k \in 1..(b - a) |-> t[a + k]]
\* t[:hi] and t[lo:]
PyPrefix(t, hi) == PySlice(t, 0, hi)
PySuffix(t, lo) == PySlice(t, lo, Len(t))

RECURSIVE SumSeq(_)
SumSeq(x) == IF x = <<>> THEN 0 ELSE Head(x) + SumSeq(Tail(x))
\* numpy.prod
RECURSIVE Prod(_)
Prod(t) == IF t = <<>> THEN 1 ELSE Head(t) * Prod(Tail(t))

\* A matrix is the tuple of its rows.
\* torch.dot(x, y)
Dot(x, y) == SumSeq([i \in DOMAIN x |-> x[i] * y[i]])
\* torch.mv(A, x)
MV(A, x) == [i \in DOMAIN A |-> Dot(A[i], x)]
\* A.t()
Transposed(A) == [j \in DOMAIN A[1] |-> [i \in DOMAIN A |-> A[i][j]]]

Abs(a) == IF a < 0 THEN -a ELSE a
RECURSIVE GCD(_, _)
GCD(a, b) == IF b = 0 THEN a ELSE GCD(b, a % b)
RECURSIVE GCDSeq(_)
GCDSeq(x) == IF x = <<>> THEN 0 ELSE GCD(Abs(Head(x)), GCDSeq(Tail(x)))

\* torch.nn.functional.normalize(x, dim=0, eps): x / max(|x|, eps).  The unit
\* vector x/|x| is written as the primitive integer vector of its direction
\* (x over the gcd of its entries); this is exact because mv is linear and
\* normalize(c x) = normalize(x) for c > 0.  |x| < eps = 1e-12 happens for
\* these vectors only at x = 0, where the result is 0.
Normalize(x) ==
  LET g == GCDSeq(x)
  IN IF g = 0 THEN x ELSE [i \in DOMAIN x |-> x[i] \div g]

\* torch.dot(u, torch.mv(A, v)) for unit vectors u, v given by their
\* directions: the number num / (|u| |v|)
Sigma(x, A, y) == [num |-> Dot(x, MV(A, y)), u |-> x, v |-> y]

\* the loop body with the two updates in the other order
IterStepUFirst(A, st) ==
  LET nu == Normalize(MV(A, st.v))
      nv == Normalize(MV(Transposed(A), nu))
  IN [u |-> nu, v |-> nv,
      buf_u |-> IF st.aliased THEN nu ELSE st.buf_u,
      buf_v |-> IF st.aliased THEN nv ELSE st.buf_v,
      aliased |-> FALSE, iters |-> st.iters + 1]

\* one pass of the loop body.  st.u, st.v are the locals u, v; while they
\* still alias the buffers self.u, self.v (st.aliased), out=v and out=u write
\* the buffers in place; the clones that end the pass end the aliasing.
IterStep(A, st) ==
  LET nv == Normalize(MV(Transposed(A), st.u))
      nu == Normalize(MV(A, nv))
  IN [u |-> nu, v |-> nv,
      buf_u |-> IF st.aliased THEN nu ELSE st.buf_u,
      buf_v |-> IF st.aliased THEN nv ELSE st.buf_v,
      aliased |-> FALSE, iters |-> st.iters + 1]

\* for _ in range(k)
RECURSIVE PowerIterate(_, _, _)
PowerIterate(A, st, k) ==
  IF k <= 0 THEN st ELSE PowerIterate(A, IterStep(A, st), k - 1)

\* t.transpose(0, d) on a tensor of shape sh
TransposeShape(sh, d) ==
  LET k == IF d >= 0 THEN d + 1 ELSE Len(sh) + d + 1
  IN [i \in DOMAIN sh |-> IF i = 1 THEN sh[k] ELSE IF i = k THEN sh[1] ELSE sh[i]]

\* SpectralNormWeight.__init__(shape, dim, eps, n_power_iterations) with the
\* random draws of weight_mat, u, v given as A, u0, v0
SNInit(shape, dim, n, A, u0, v0) ==
  [n_power_iterations |-> n,
   dim |-> dim,
   shape |-> shape,
   permuted_shape |-> <<PyIndex(shape, dim)>> \o PyPrefix(shape, dim) \o PySuffix(shape, dim + 1),
   weight_mat |-> A,
   u |-> Normalize(u0),
   v |-> Normalize(v0),
   training |-> TRUE]
\* h and w of __init__
MatH(shape, dim) == PyIndex(shape, dim)
MatW(shape, dim) == Prod(PyPrefix(shape, dim) \o PySuffix(shape, dim + 1))

\* forward() that runs the power iteration whatever the training flag is
ForwardAlwaysIterates(self) ==
  LET st0 == [u |-> self.u, v |-> self.v, buf_u |-> self.u, buf_v |-> self.v,
              aliased |-> TRUE, iters |-> 0]
      st  == PowerIterate(self.weight_mat, st0, self.n_power_iterations)
      sigma == Sigma(st.u, self.weight_mat, st.v)
      viewed == self.permuted_shape
  IN [self |-> [self EXCEPT !.u = st.buf_u, !.v = st.buf_v],
      weight |-> [mat |-> self.weight_mat, sigma |-> sigma,
                  shape |-> IF self.dim # 0 THEN TransposeShape(viewed, self.dim)
                            ELSE viewed],
      u |-> st.u, v |-> st.v, iters |-> st.iters]

\* forward(self): the object after the call, the weight returned, and the
\* locals u, v and the number of loop passes at the return
Forward(self) ==
  LET st0 == [u |-> self.u, v |-> self.v, buf_u |-> self.u, buf_v |-> self.v,
              aliased |-> TRUE, iters |-> 0]
      st  == IF self.training
               THEN PowerIterate(self.weight_mat, st0, self.n_power_iterations)
               ELSE st0
      sigma == Sigma(st.u, self.weight_mat, st.v)
      viewed == self.permuted_shape
  IN [self |-> [self EXCEPT !.u = st.buf_u, !.v = st.buf_v],
      weight |-> [mat |-> self.weight_mat, sigma |-> sigma,
                  shape |-> IF self.dim # 0 THEN TransposeShape(viewed, self.dim)
                            ELSE viewed],
      u |-> st.u, v |-> st.v, iters |-> st.iters]

\* entries of the matrices and vectors drawn at construction
Entries == 0..1
Vectors(n) == [1..n -> Entries]
Matrices(h, w) == [1..h -> [1..w -> Entries]]
Ones(n) == [i \in 1..n |-> 1]
\* shapes of weights
Shapes == UNION {[1..r -> 1..MaxExtent] : r \in 2..MaxRank}
\* dim: an index into shape, from either end
Dims(shape) == (0 - Len(shape))..(Len(shape) - 1)

\* a 2 x 2 weight with every matrix and every pair of start vectors
SNStateInit ==
  /\ \E dim \in 0..1, n \in 0..MaxPowerIterations,
        A \in Matrices(2, 2), u0 \in Vectors(2), v0 \in Vectors(2) :
       /\ u0 # <<0, 0>>
       /\ v0 # <<0, 0>>
       /\ snw = SNInit(<<2, 2>>, dim, n, A, u0, v0)
  /\ forwards = 0

\* every shape and dim, with the all-ones matrix and start vectors
SNShapeInit ==
  /\ \E shape \in Shapes :
       \E dim \in Dims(shape) :
         snw = SNInit(shape, dim, 1,
                      [i \in 1..MatH(shape, dim) |-> Ones(MatW(shape, dim))],
                      Ones(MatH(shape, dim)), Ones(MatW(shape, dim)))
  /\ forwards = 0

\* a call of forward()
ForwardCall ==
  /\ forwards < MaxForward
  /\ LET r == Forward(snw)
     IN /\ snw' = r.self
        /\ last' = [op |-> "forward", after |-> last.op, pre |-> snw,
                    weight |-> r.weight, u |-> r.u, v |-> r.v, iters |-> r.iters,
                   before |-> IF last.op = "forward"
                                THEN [weight |-> last.weight] ELSE None]
  /\ forwards' = forwards + 1
  /\ UNCHANGED notSNVars

\* module.train() / module.eval()
SetTraining ==
  \E mode \in BOOLEAN :
    /\ mode # snw.training
    /\ snw' = [snw EXCEPT !.training = mode]
    /\ last' = [op |-> "train", after |-> last.op]
    /\ UNCHANGED <<forwards, notSNVars>>

\* opt.step() after a forward and backward pass changes an entry of weight_mat
WeightUpdate ==
  \E i \in DOMAIN snw.weight_mat :
    \E j \in DOMAIN snw.weight_mat[i], e \in Entries :
      /\ last.op = "forward"
      /\ e # snw.weight_mat[i][j]
      /\ snw' = [snw EXCEPT !.weight_mat[i][j] = e]
      /\ last' = [op |-> "weight_update", after |-> last.op]
      /\ UNCHANGED <<forwards, notSNVars>>

vars == <<cpVars, proxyVars, modVars, snVars>>

\* the parts of the state a specification does not exercise stay as built
SNIdle == snw = SNInit(<<2, 2>>, 0, 1, <<Ones(2), Ones(2)>>, Ones(2), Ones(2)) /\ forwards = 0


\* the ComputedParameter and its callers
Init == CPStateInit /\ ProxyStateInit /\ ModStateInit /\ SNIdle
Next ==
  \/ TensorCall
  \/ RequireUpdateCall
  \/ CheckParamVersionsCall
  \/ OptimizerStep
  \/ Backward
Spec == Init /\ [][Next]_vars

\* the ComputedParameter used through __torch_function__ and ==
TFNext ==
  \/ TorchFunctionCall
  \/ EqCall
  \/ Backward
SpecTF == Init /\ [][TFNext]_vars

\* the ComputedParameter used through its proxied tensor methods
ProxyNext ==
  \/ RunProxyCell
  \/ MethodCall
  \/ OptimizerStep
  \/ Backward
SpecProxy == Init /\ [][ProxyNext]_vars

\* a module whose attributes are assigned, before and after replace_setattr()
SetattrNext ==
  \/ ReplaceSetattr
  \/ SetAttr
  \/ RegisterBufferCall
SpecSetattr == Init /\ [][SetattrNext]_vars

\* a 2 x 2 SpectralNormWeight whose forward() is called while it is trained
SNNext ==
  \/ ForwardCall
  \/ SetTraining
  \/ WeightUpdate
InitSN == CPStateInit /\ ProxyStateInit /\ ModStateInit /\ SNStateInit
SpecSN == InitSN /\ [][SNNext]_vars

\* SpectralNormWeight built for every shape and dim
ShapeNext ==
  \/ ForwardCall
  \/ SetTraining
InitShape == CPStateInit /\ ProxyStateInit /\ ModStateInit /\ SNShapeInit
SpecShape == InitShape /\ [][ShapeNext]_vars

(* ------------------------------- claims -------------------------------- *)

\* C1: when tensor() is called twice in a row (so no parameter version
\* changed and no backward pass ran in between) and the first call left a
\* usable value in the cache, the second call, when it returns, returns that
\* cached value and does not invoke m() again.
C1_SecondCallUsesCache ==
  (/\ last.op = "tensor"
   /\ last.after = "tensor"
   /\ last.pre.cp.cache # None
   /\ last.pre.cp.cache.requires_grad
   /\ IsValue(last.ret))
  => (/\ last.ret = last.pre.cp.cache
      /\ m_calls = last.pre.m_calls)

\* C2: a tensor() call made while some parameter's version differs from the
\* one the cache was computed at re-invokes m() and, when it returns, returns
\* the newly computed value; no tensor() call returns a value computed from
\* parameter versions other than the current ones.
C2_StaleParamsRecompute ==
  last.op = "tensor" =>
    /\ ( (\/ (last.pre.cp.param_versions # NoVersions
              /\ last.pre.cp.param_versions # last.pre.versions)
          \/ (last.pre.cp.cache # None
              /\ last.pre.cp.cache.vers # last.pre.versions))
         => /\ m_calls = last.pre.m_calls + 1
            /\ IsValue(last.ret) => last.ret.id = m_calls )
    /\ ~IsRaised(last.ret) => (last.ret # None /\ last.ret.vers = versions)

\* C2 witness: tensor() was called after a parameter update made the recorded
\* versions stale, and it returned a value.
C2_Witness ==
  /\ last.op = "tensor"
  /\ last.pre.cp.param_versions # NoVersions
  /\ last.pre.cp.param_versions # last.pre.versions
  /\ IsValue(last.ret)

\* C3: every value a recomputing tensor() call returns carries the gradient
\* hook; once the hook of the cached value has fired needs_update is True, and
\* the next tensor() call invokes m() again instead of returning the value
\* that was back-propagated through.
C3_BackwardInvalidates ==
  /\ (last.op = "tensor" /\ IsValue(last.ret) /\ m_calls > last.pre.m_calls)
       => last.ret.id \in hooks
  /\ last.op = "backward" => cp.needs_update
  /\ fired => cp.needs_update
  /\ (last.op = "tensor" /\ last.pre.fired)
       => /\ m_calls = last.pre.m_calls + 1
          /\ IsValue(last.ret) => last.ret # last.pre.cp.cache

\* C3 witness: tensor() was called after the hook of the cached value had
\* fired, and it returned a value.
C3_Witness ==
  /\ last.op = "tensor"
  /\ last.pre.fired
  /\ IsValue(last.ret)

\* C4: assigning a ComputedParameter through the patched __setattr__ to a name
\* that holds an ordinary Parameter raises nothing, removes the name from the
\* parameter registry and binds it to the wrapper in the submodule registry.
C4_SpliceReplacesParameter ==
  (/\ last.op = "setattr"
   /\ last.patched
   /\ IsComputedParameter(last.v)
   /\ IsParameter(GetAttr(last.pre, last.n, Default1)))
  => /\ last.err = None
     /\ mod._parameters[last.n] = Absent
     /\ mod._modules[last.n] = last.v

\* C4 witness: the patched __setattr__ assigned a ComputedParameter to a name
\* holding a Parameter.
C4_Witness ==
  /\ last.op = "setattr"
  /\ last.patched
  /\ IsComputedParameter(last.v)
  /\ IsParameter(GetAttr(last.pre, last.n, Default1))

\* C5: whenever __torch_function__ invokes func, no ComputedParameter is among
\* the positional or keyword inputs func receives.
C5_FuncNeverReceivesCP ==
  (last.op = "torch_function" /\ last.call.called)
  => /\ \A i \in DOMAIN last.call.func_args :
          ~IsComputedParameter(last.call.func_args[i])
     /\ \A k \in DOMAIN last.call.func_kwargs :
          ~IsComputedParameter(last.call.func_kwargs[k])

\* C6: once the installation loop has run, every method-descriptor name of the
\* tensor class that ComputedParameter did not define has a proxy bound to that
\* very name, and a call of the method on the ComputedParameter returns what the
\* method of the same name returns on the current tensor() value with the same
\* argument.
C6_ProxyForwardsOwnName ==
  /\ installed =>
       \A i \in DOMAIN TensorMembers :
         (TensorMembers[i].descriptor /\ TensorMembers[i].name \notin OwnAttrs)
         => cls_attrs[TensorMembers[i].name] = [kind |-> "proxy", name |-> TensorMembers[i].name]
  /\ (last.op = "method" /\ ~IsRaised(last.ret))
       => last.ret = TensorMethod(last.name, cp.cache, last.arg)

\* C6 witness: a proxied method that is not the last member visited by the
\* loop was called and returned.
C6_Witness ==
  /\ last.op = "method"
  /\ last.name = "add"
  /\ ~IsRaised(last.ret)

\* the power iteration as the mathematics states it: k steps of
\* v <- normalize(A^T u), u <- normalize(A v)
RECURSIVE PowerMethod(_, _, _, _)
PowerMethod(A, x, y, k) ==
  IF k = 0
    THEN [u |-> x, v |-> y]
    ELSE LET y1 == Normalize(MV(Transposed(A), x))
             x1 == Normalize(MV(A, y1))
         IN PowerMethod(A, x1, y1, k - 1)

\* C7: in training mode each step of forward() sets v to normalize(A^T u) from
\* the u before the step and then u to normalize(A v) from that new v; sigma is
\* u^T A v on the u and v the last step leaves, and the weight returned is A
\* divided by that sigma.
C7_PowerIterationStep ==
  (last.op = "forward" /\ last.pre.training)
  => LET A == last.pre.weight_mat
         r == PowerMethod(A, last.pre.u, last.pre.v, last.pre.n_power_iterations)
     IN /\ last.u = r.u
        /\ last.v = r.v
        /\ last.weight.sigma = [num |-> Dot(r.u, MV(A, r.v)), u |-> r.u, v |-> r.v]
        /\ last.weight.mat = A

\* C7 witness: a training-mode forward() ran a step that changed both vectors.
C7_Witness ==
  /\ last.op = "forward"
  /\ last.pre.training
  /\ last.pre.n_power_iterations >= 1
  /\ last.u # last.pre.u
  /\ last.v # last.pre.v
  /\ last.weight.sigma.num > 0

\* C8: a training-mode forward() runs exactly n_power_iterations iterations and
\* leaves the buffers u and v holding the last iterates.
C8_BuffersHoldLastIterates ==
  (last.op = "forward" /\ last.pre.training)
  => /\ last.iters = last.pre.n_power_iterations
     /\ snw.u = last.u
     /\ snw.v = last.v

\* C9: for every shape and every dim in 0 .. len(shape) - 1, the weight
\* forward() returns has the shape given to the constructor.
C9_ReturnedShapeIsShape ==
  (last.op = "forward" /\ snw.dim >= 0) => last.weight.shape = snw.shape

\* C10: for a value that is no ComputedParameter the patched __setattr__ leaves
\* the module in the state, and raises the error, the original __setattr__
\* would.
C10_NonCPAssignLikeOriginal ==
  (/\ last.op = "setattr"
   /\ last.patched
   /\ ~IsComputedParameter(last.v))
  => [m |-> mod, err |-> last.err] = OldSetattr(last.pre, last.n, last.v)

\* C11: after check_param_versions(), needs_update is True if param_versions
\* was None or some parameter's current version differs from the recorded
\* one; if every recorded version is the current one, needs_update keeps its
\* value; cache and param_versions are unchanged in every case.
C11_CheckFlagsMismatchOnly ==
  last.op = "check_param_versions" =>
    LET pre == last.pre.cp
        stale == \/ pre.param_versions = NoVersions
                 \/ \E p \in Params : last.pre.versions[p] # pre.param_versions[p]
    IN /\ stale => cp.needs_update
       /\ ~stale => cp.needs_update = pre.needs_update
       /\ cp.cache = pre.cache
       /\ cp.param_versions = pre.param_versions

\* C11 witness: check_param_versions() ran while every recorded version was
\* the current one, some parameter having been updated before the recording.
C11_Witness ==
  /\ last.op = "check_param_versions"
  /\ last.pre.cp.param_versions # NoVersions
  /\ last.pre.cp.param_versions = last.pre.versions
  /\ last.pre.versions # [p \in Params |-> 0]

\* C12: in evaluation mode forward() runs no power iteration and leaves the
\* buffers u, v and weight_mat unchanged, so a forward() in evaluation mode
\* that directly follows another one returns the same weight.
C12_EvalForwardIsPure ==
  (last.op = "forward" /\ ~last.pre.training) =>
    /\ last.iters = 0
    /\ snw.u = last.pre.u
    /\ snw.v = last.pre.v
    /\ snw.weight_mat = last.pre.weight_mat
    /\ last.before # None => last.weight = last.before.weight

\* C12 witness: two forward() calls in a row in evaluation mode, on an object
\* that would iterate in training mode, returning a weight with nonzero sigma.
C12_Witness ==
  /\ last.op = "forward"
  /\ ~last.pre.training
  /\ last.pre.n_power_iterations > 0
  /\ last.before # None
  /\ last.weight.sigma.num # 0

\* C13: whenever cache is not None, param_versions is a list with one entry
\* per parameter, each entry being the version the parameter had when the
\* current cache value was computed.
C13_VersionsMatchCache ==
  cp.cache # None =>
    /\ cp.param_versions # NoVersions
    /\ DOMAIN cp.param_versions = Params
    /\ cp.param_versions = cp.cache.vers

\* C14: tensor() never returns the initial empty cache: the first tensor()
\* call invokes m(), and every tensor() call that returns, returns a value
\* produced by an invocation of m(), never None.
C14_NeverReturnsEmptyCache ==
  last.op = "tensor" =>
    /\ last.pre.cp.cache = None => m_calls = last.pre.m_calls + 1
    /\ last.pre.m_calls = 0 => m_calls = 1
    /\ ~IsRaised(last.ret) => /\ last.ret # None
                              /\ last.ret.id \in 1..m_calls

\* C14 witness: the first tensor() call on a new ComputedParameter returned.
C14_Witness ==
  /\ last.op = "tensor"
  /\ last.pre.cp = CPInit
  /\ last.pre.m_calls = 0
  /\ IsValue(last.ret)
  /\ last.ret = cp.cache

C16_EqNeverRaises ==
  (last.op = "eq" /\ last.grad /\ last.other # OtherObj) =>
    /\ ~IsRaised(last.ret)
    /\ last.dispatches <= 1

====
